---- MODULE Spec2Model ----
(***************************************************************************)
(* Model of the MeshChat radio core: RadioConnector, BluetoothRadio,       *)
(* SerialRadio (radio/connector.py), RadioHandler (radio/handler.py) and   *)
(* the worker plumbing of MeshChatApp (tui/app.py).                        *)
(*                                                                         *)
(* Python objects live on a heap: `radios` and `handlers` are the radio    *)
(* and handler objects ever constructed, referenced by index (0 is None).  *)
(* Driver sessions (MeshCore objects) are numbered 1..nSess; `open` holds  *)
(* the sessions the driver has not disconnected.  A coroutine is a record  *)
(* with a pc; one action is one run of the coroutine between two awaits    *)
(* that suspend on device I/O or on a timer.                               *)
(***************************************************************************)
EXTENDS Naturals, Integers, Sequences, FiniteSets, TLC

VARIABLES
    radios,             \* heap of BaseRadio objects: [kind, meshcore]
    handlers,           \* heap of RadioHandler objects: [meshcore, subscriptions]
    nSess,              \* number of driver sessions created so far
    nStarts,            \* number of start_listening() calls so far
    open,               \* driver sessions that are connected
    live,               \* subscriptions registered with the driver's dispatcher
    radio,              \* RadioConnector.radio
    radio_handler,      \* RadioConnector.radio_handler
    conn,               \* connect_radio() coroutines, by worker slot
    connection_worker,  \* MeshChatApp.connection_worker
    disc,               \* RadioConnector.disconnect() coroutine
    sub,                \* RadioConnector.subscribe() coroutine
    infoPc,             \* the "get_info" worker
    listsPc,            \* the "get_lists" worker
    listsResult,        \* result of the last get_contacts_and_channels()
    contacts,           \* MeshChatApp.contacts
    channels,           \* MeshChatApp.channels: dict from channel name to id
    inbound,            \* a message event the driver is about to deliver
    shown,              \* the last line given to MeshChatApp.add_message
    snapshot,           \* a CONTACTS event the driver is about to deliver
    listed,             \* the items of the "#contacts" list of the sidebar
    fetch,              \* the locals of get_contacts_and_channels()
    device,             \* what the radio holds: its contacts and channel slots
    join,               \* the process_join_command() worker
    send                \* the last send_advert / send_message / send_channel_message call

\* What the message side of the application reads and writes
msgVars ==
    <<listsResult, contacts, channels, inbound, shown, snapshot, listed, fetch,
      device, join, send>>

vars == <<radios, handlers, nSess, nStarts, open, live, radio, radio_handler,
          conn, connection_worker, disc, sub, infoPc, listsPc, listsResult,
          contacts, channels, inbound, shown, snapshot, listed, fetch, device,
          join, send>>

-----------------------------------------------------------------------------
(* Program constants (config.py) *)

BLE_MAX_RETRIES == 3

BLE_RETRY_DELAY == 5

BLE_MAX_CHANNEL_ATTEMPTS == 8

(* Bounds of the model *)

\* radio objects alive at once (holding a session, or held by a coroutine)
MaxRadios == 2

\* driver sessions opened over a run
MaxSessions == 2

\* start_listening() calls over a run
MaxStarts == 2

\* connection workers that exist at once (running, or finished and unhandled)
Slots == {1, 2}

\* "join" commands over a run
MaxJoins == 2

\* How many messages and adverts the user sends
MaxSends == 2

-----------------------------------------------------------------------------
(* Values *)

\* EventType members the handler subscribes to, in the order of start_listening
Categories == <<"CONTACT_MSG_RECV", "CHANNEL_MSG_RECV", "CONTACTS">>

\* What one BLE connect attempt can do: succeed, asyncio.TimeoutError,
\* (ConnectionError, BleakDBusError, AttributeError), or any other Exception
Failures == {"timeout", "transport", "unexpected"}

Outcomes == {"ok"} \cup Failures

ConnIdle ==
    [pc |-> "idle", r |-> 0, attempt |-> 0, tries |-> 0, failed |-> {},
     last |-> "none", delays |-> <<>>, torn |-> "none", result |-> "none"]

DiscIdle ==
    [pc |-> "idle", h |-> 0, r |-> 0, s |-> 0, entry |-> FALSE, log |-> <<>>,
     exc |-> FALSE, result |-> "none"]

SubIdle == [pc |-> "idle", h |-> 0, result |-> "none"]

\* Worker.is_running of a connection worker
IsRunning(c) == c.pc \in {"pending", "teardown", "attempt", "sleep", "serial"}

\* BaseRadio.__init__: a radio object starts without a session
NewRadio(kind) == [kind |-> kind, meshcore |-> 0]

\* RadioHandler.__init__
NewHandler(meshcore) == [meshcore |-> meshcore, subscriptions |-> <<>>]

\* get_contacts_and_channels() without a session, or of a radio that holds
\* no contact and no named channel
NoLists == [contacts |-> <<>>, channels |-> <<>>]

\* No message event to deliver
NoEvent == [type |-> "none"]

\* No message displayed yet
NoLine == [line |-> <<>>]

\* No contacts event to deliver
NoSnapshot == [shape |-> "none"]

\* The channel slot indices get_contacts_and_channels probes
SlotIds == 0..(BLE_MAX_CHANNEL_ATTEMPTS - 1)

\* A radio that holds no contact and whose channel slots are all empty
EmptyDevice == [contacts |-> <<>>, slots |-> [i \in SlotIds |-> <<>>]]

\* get_contacts_and_channels() before its first await: `contacts = []`,
\* `channels = []`.  s is the session it works on, idx the next slot index,
\* got the outcome of get_contacts, probed the indices probed so far, okAt
\* those whose probe returned a channel event and raisedAt those whose probe
\* raised.
FetchIdle ==
    [s |-> 0, idx |-> 0, contacts |-> <<>>, channels |-> <<>>, got |-> "none",
     probed |-> <<>>, okAt |-> {}, raisedAt |-> {}]

\* ChannelOverwriteScreen dismissed with None: the join is cancelled
NoChoice == -1

\* No process_join_command() worker; n counts the join commands so far
JoinIdle ==
    [pc |-> "idle", n |-> 0, name |-> <<>>, result |-> "none", occupied |-> <<>>,
     choice |-> NoChoice, calls |-> <<>>]

\* No send operation was called yet
SendIdle ==
    [pc |-> "idle", n |-> 0, op |-> "none", s |-> 0, calls |-> 0,
     raised |-> FALSE, ret |-> [ok |-> FALSE]]

\* The connector and the workers after construction
InitConnector ==
    /\ radios = <<>>
    /\ handlers = <<>>
    /\ nSess = 0
    /\ nStarts = 0
    /\ open = {}
    /\ live = {}
    /\ radio = 0
    /\ radio_handler = 0
    /\ conn = [t \in Slots |-> ConnIdle]
    /\ connection_worker = 0
    /\ disc = DiscIdle
    /\ sub = SubIdle
    /\ infoPc = "idle"

Init ==
    /\ InitConnector
    /\ listsPc = "idle"
    /\ listsResult = NoLists
    /\ contacts = <<>>
    /\ channels = [n \in {} |-> 0]
    /\ inbound = NoEvent
    /\ shown = NoLine
    /\ snapshot = NoSnapshot
    /\ listed = <<>>
    /\ fetch = FetchIdle
    /\ device = EmptyDevice
    /\ join = JoinIdle
    /\ send = SendIdle

-----------------------------------------------------------------------------
(* Driver-side helpers *)

\* The callback start_listening() binds to a category
CallbackOf(c) == IF c = "CONTACTS" THEN "contacts_callback" ELSE "message_callback"

\* The handle that start_listening() number k, on handler h, gets for a category
Handle(h, k, c) == [hd |-> h, k |-> k, cat |-> c, cb |-> CallbackOf(c)]

\* Categories for which the driver holds a live subscription of handler h
LiveCats(h) == {s.cat : s \in {x \in live : x.hd = h}}

\* Number of live subscriptions of handler h for category c
LiveCount(h, c) == Cardinality({x \in live : x.hd = h /\ x.cat = c})

\* Radio objects whose session is connected at the driver
ConnectedRadios == {i \in DOMAIN radios : radios[i].meshcore \in open}

-----------------------------------------------------------------------------
(* MeshChatApp.action_start_connection *)

\* A faulty variant: the running worker is not looked at
ConnectInProgressUnchecked == FALSE

\* `self.connection_worker and self.connection_worker.is_running`
ConnectInProgress ==
    /\ connection_worker # 0
    /\ IsRunning(conn[connection_worker])

\* run_worker(..., exclusive=True): every running worker of the group is
\* cancelled.  A coroutine that has not run yet never runs; one suspended in
\* an await gets CancelledError there, which no `except Exception` catches.
\* Only disconnect() has a finally block to run on the way out.
CancelledConn(c) == IF IsRunning(c) THEN [ConnIdle EXCEPT !.result = "cancelled"] ELSE c

CancelledDisc(d) ==
    CASE d.pc = "pending" -> DiscIdle
      [] d.pc \in {"stop_auto", "drv_disc"} -> [d EXCEPT !.pc = "cancelled"]
      [] OTHER -> d

CancelledSub(s) == IF s.pc \in {"pending", "auto"} THEN SubIdle ELSE s

CancelledPc(pc) == IF pc \in {"pending", "running"} THEN "idle" ELSE pc

\* The "get_lists" worker: not started yet, or suspended in get_contacts or
\* in a get_channel
CancelledLists(pc) == IF pc \in {"pending", "contacts", "probe"} THEN "idle" ELSE pc

\* Radio objects a suspended coroutine still holds: `self` of a running
\* radio.connect() or radio.disconnect()
HeldRadios ==
    {conn[t].r : t \in {u \in Slots : conn[u].pc \in {"teardown", "attempt", "sleep", "serial"}}}
        \cup (IF disc.pc \in {"drv_disc"} THEN {disc.r} ELSE {})

\* Heap cells whose object nothing will reach once self.radio is reassigned:
\* no coroutine holds it and it owns no session.  Such a cell is reused for
\* the next object, so that garbage does not distinguish states.
FreeCells == {i \in DOMAIN radios : radios[i].meshcore = 0 /\ i \notin HeldRadios}

\* set_bluetooth_radio / set_serial_radio: self.radio = <a new radio object>.
\* The radio selected before is neither disconnected nor kept.
SetRadio(kind) ==
    IF FreeCells # {}
    THEN LET i == CHOOSE c \in FreeCells : \A d \in FreeCells : c <= d IN
         /\ radios' = [radios EXCEPT ![i] = NewRadio(kind)]
         /\ radio' = i
    ELSE /\ Len(radios) < MaxRadios
         /\ radios' = Append(radios, NewRadio(kind))
         /\ radio' = Len(radios) + 1

ActionStartConnection(kind) ==
    /\ SetRadio(kind)
    /\ IF ConnectInProgress
       THEN UNCHANGED <<conn, connection_worker, disc, sub, infoPc, listsPc, fetch>>
       ELSE /\ \E t \in Slots :
                 /\ conn[t].pc = "idle"
                 /\ \A u \in Slots : conn[u].pc = "idle" => t <= u
                 /\ conn' = [u \in Slots |->
                               IF u = t THEN [ConnIdle EXCEPT !.pc = "pending"]
                               ELSE CancelledConn(conn[u])]
                 /\ connection_worker' = t
            /\ disc' = CancelledDisc(disc)
            /\ sub' = CancelledSub(sub)
            /\ infoPc' = CancelledPc(infoPc)
            /\ listsPc' = CancelledLists(listsPc)
            /\ fetch' = IF listsPc' = listsPc THEN fetch ELSE FetchIdle
    /\ UNCHANGED <<handlers, nSess, nStarts, open, live, radio_handler>>
    /\ UNCHANGED <<listsResult, contacts, channels, inbound, shown, snapshot,
                   listed, device, join, send>>

-----------------------------------------------------------------------------
(* RadioConnector.connect_radio with BluetoothRadio.connect / SerialRadio.connect *)

\* `RadioHandler(await self.radio.get_meshcore(), ...)` after a successful
\* connect: self.radio is read again here.  rs is the radio heap after the
\* attempt.  With self.radio None the call raises AttributeError.
FinishSuccess(t, rs) ==
    IF radio = 0
    THEN /\ conn' = [conn EXCEPT ![t].pc = "done", ![t].result = "raised",
                                 ![t].tries = @ + 1, ![t].last = "ok"]
         /\ UNCHANGED <<handlers, radio_handler>>
    ELSE /\ handlers' = Append(handlers, NewHandler(rs[radio].meshcore))
         /\ radio_handler' = Len(handlers) + 1
         /\ conn' = [conn EXCEPT ![t].pc = "done", ![t].result = "ok",
                                 ![t].tries = @ + 1, ![t].last = "ok"]

\* First run of the coroutine: `if self.radio:`, then radio.connect() up to
\* its first await.
ConnBegin(t) ==
    /\ conn[t].pc = "pending"
    /\ conn' = [conn EXCEPT ![t] =
         IF radio = 0
         THEN [@ EXCEPT !.pc = "done", !.result = "no_radio"]
         ELSE IF radios[radio].kind = "ble"
              THEN IF radios[radio].meshcore # 0
                   THEN [@ EXCEPT !.pc = "teardown", !.r = radio]
                   ELSE [@ EXCEPT !.pc = "attempt", !.r = radio]
              ELSE [@ EXCEPT !.pc = "serial", !.r = radio,
                             !.torn = IF radios[radio].meshcore # 0
                                      THEN "skipped" ELSE "none"]]
    /\ UNCHANGED <<radios, handlers, nSess, nStarts, open, live, radio,
                   radio_handler, connection_worker, disc, sub, infoPc, listsPc>>
    /\ UNCHANGED msgVars

\* BluetoothRadio.connect: `if self.meshcore: await self.disconnect()`.
\* BluetoothRadio.disconnect has no try: a raising driver disconnect leaves
\* self.meshcore set and the exception leaves connect() and connect_radio().
ConnTeardown(t, ok) ==
    /\ conn[t].pc = "teardown"
    /\ LET r == conn[t].r IN
       IF ok
       THEN /\ open' = open \ {radios[r].meshcore}
            /\ radios' = [radios EXCEPT ![r].meshcore = 0]
            /\ conn' = [conn EXCEPT ![t].pc = "attempt", ![t].torn = "ok"]
       ELSE /\ conn' = [conn EXCEPT ![t].pc = "done", ![t].torn = "raised",
                                    ![t].result = "raised"]
            /\ UNCHANGED <<open, radios>>
    /\ UNCHANGED <<handlers, nSess, nStarts, live, radio, radio_handler,
                   connection_worker, disc, sub, infoPc, listsPc>>
    /\ UNCHANGED msgVars

\* The result string connect() returns for a failure on the last attempt
FailResult(o) == "fail_" \o o

\* A faulty variant: the delay grows linearly
BackoffDelayLinear(attempt) == BLE_RETRY_DELAY * (attempt + 1)

\* asyncio.sleep(BLE_RETRY_DELAY * (2 ** attempt))
BackoffDelay(attempt) == BLE_RETRY_DELAY * (2 ^ attempt)

\* A faulty variant: off by one, the loop retries once more
IsFinalAttemptLate(attempt) == attempt > BLE_MAX_RETRIES

\* `if attempt >= BLE_MAX_RETRIES: return False, ...`
IsFinalAttempt(attempt) == attempt >= BLE_MAX_RETRIES

\* One iteration of `for attempt in range(BLE_MAX_RETRIES + 1)`: the awaited
\* MeshCore.create_ble completes with outcome o.
ConnAttempt(t, o) ==
    /\ conn[t].pc = "attempt"
    /\ LET r == conn[t].r
           a == conn[t].attempt IN
       IF o = "ok"
       THEN /\ nSess < MaxSessions
            /\ nSess' = nSess + 1
            /\ open' = open \cup {nSess + 1}
            /\ radios' = [radios EXCEPT ![r].meshcore = nSess + 1]
            /\ FinishSuccess(t, radios')
       ELSE /\ conn' = [conn EXCEPT ![t] =
                 IF IsFinalAttempt(a)
                 THEN [@ EXCEPT !.pc = "done", !.result = FailResult(o),
                                !.tries = @ + 1, !.failed = @ \cup {o},
                                !.last = o]
                 ELSE [@ EXCEPT !.pc = "sleep", !.tries = @ + 1,
                                !.failed = @ \cup {o}, !.last = o,
                                !.delays = Append(@, BackoffDelay(a))]]
            /\ UNCHANGED <<nSess, open, radios, handlers, radio_handler>>
    /\ UNCHANGED <<nStarts, live, radio, connection_worker, disc, sub,
                   infoPc, listsPc>>
    /\ UNCHANGED msgVars

\* The sleep ends; the for loop takes the next attempt.
ConnSleep(t) ==
    /\ conn[t].pc = "sleep"
    /\ conn' = [conn EXCEPT ![t].pc = "attempt", ![t].attempt = @ + 1]
    /\ UNCHANGED <<radios, handlers, nSess, nStarts, open, live, radio,
                   radio_handler, connection_worker, disc, sub, infoPc, listsPc>>
    /\ UNCHANGED msgVars

\* A faulty variant: no except clause, a failing create_serial leaves connect()
ConnSerialUncaught(t, ok) ==
    /\ conn[t].pc = "serial"
    /\ LET r == conn[t].r IN
       IF ok
       THEN /\ nSess < MaxSessions
            /\ nSess' = nSess + 1
            /\ open' = open \cup {nSess + 1}
            /\ radios' = [radios EXCEPT ![r].meshcore = nSess + 1]
            /\ FinishSuccess(t, radios')
       ELSE /\ conn' = [conn EXCEPT ![t].pc = "done", ![t].result = "raised",
                                    ![t].tries = @ + 1, ![t].failed = {"error"},
                                    ![t].last = "error"]
            /\ UNCHANGED <<nSess, open, radios, handlers, radio_handler>>
    /\ UNCHANGED <<nStarts, live, radio, connection_worker, disc, sub,
                   infoPc, listsPc>>
    /\ UNCHANGED msgVars

\* SerialRadio.connect: one awaited MeshCore.create_serial in a try/except
\* Exception.  self.meshcore is overwritten; a session it held is not closed.
ConnSerial(t, ok) ==
    /\ conn[t].pc = "serial"
    /\ LET r == conn[t].r IN
       IF ok
       THEN /\ nSess < MaxSessions
            /\ nSess' = nSess + 1
            /\ open' = open \cup {nSess + 1}
            /\ radios' = [radios EXCEPT ![r].meshcore = nSess + 1]
            /\ FinishSuccess(t, radios')
       ELSE /\ conn' = [conn EXCEPT ![t].pc = "done", ![t].result = "fail_serial",
                                    ![t].tries = @ + 1, ![t].failed = {"error"},
                                    ![t].last = "error"]
            /\ UNCHANGED <<nSess, open, radios, handlers, radio_handler>>
    /\ UNCHANGED <<nStarts, live, radio, connection_worker, disc, sub,
                   infoPc, listsPc>>
    /\ UNCHANGED msgVars

-----------------------------------------------------------------------------
(* RadioConnector.disconnect with RadioHandler.stop_listening *)

\* The "disconnect" command of on_input_submitted: run_worker(disconnect)
DisconnectCommand ==
    /\ disc.pc = "idle"
    /\ disc' = [DiscIdle EXCEPT !.pc = "pending"]
    /\ UNCHANGED <<radios, handlers, nSess, nStarts, open, live, radio,
                   radio_handler, conn, connection_worker, sub, infoPc, listsPc>>
    /\ UNCHANGED msgVars

\* A faulty variant: the guard looks at the radio only, not at its session
HasActiveLinkRadioOnly == radio # 0

\* `if self.radio and self.radio.meshcore:`
HasActiveLink == radio # 0 /\ radios[radio].meshcore # 0

\* n copies of x
Repeat(x, n) == [i \in 1..n |-> x]

\* The handles among the first n of a subscription list
FirstHandles(subs, n) == {subs[i] : i \in 1..n}

\* A faulty variant: no except and no finally clause; an exception leaves
\* disconnect() with self.radio and self.radio_handler as they were
DiscFinallySkippedOnError(d, how) ==
    IF how = "normal"
    THEN /\ disc' = [d EXCEPT !.pc = "done", !.result = "returned"]
         /\ radio' = 0
         /\ radio_handler' = 0
    ELSE /\ disc' = [d EXCEPT !.pc = "done", !.exc = (how = "exception"),
                              !.result = IF how = "cancelled" THEN "cancelled"
                                         ELSE "raised"]
         /\ UNCHANGED <<radio, radio_handler>>

\* How disconnect() leaves its try block: "normal" at its end, "exception"
\* through `except (EOFError, Exception)`, which logs and swallows, or
\* "cancelled" with a CancelledError, which the except clause does not catch.
\* The finally clause runs in each case: self.radio = None and
\* self.radio_handler = None.
DiscFinally(d, how) ==
    /\ disc' = [d EXCEPT !.pc = "done", !.exc = (how = "exception"),
                         !.result = IF how = "cancelled" THEN "cancelled"
                                    ELSE "returned"]
    /\ radio' = 0
    /\ radio_handler' = 0

\* `await self.radio.disconnect()` up to its await: self.radio is read when
\* the call is made (None has no disconnect: AttributeError);
\* BaseRadio.disconnect does nothing without a session.
DiscCallRadioDisconnect(d) ==
    IF radio = 0
    THEN DiscFinally(d, "exception")
    ELSE IF radios[radio].meshcore = 0
         THEN DiscFinally(d, "normal")
         ELSE /\ disc' = [d EXCEPT !.pc = "drv_disc", !.r = radio,
                                   !.s = radios[radio].meshcore]
              /\ UNCHANGED <<radio, radio_handler>>

\* First run of disconnect(): the guard, then stop_listening() up to its
\* await.  The unsubscribe loop is synchronous; f > 0 is the position of the
\* handle whose unsubscribe raises, f = 0 means none raises.  A handler built
\* on no session raises AttributeError at its first use of self.meshcore.
DiscBegin(f) ==
    /\ disc.pc = "pending"
    /\ IF ~HasActiveLink
       THEN /\ f = 0
            /\ disc' = [disc EXCEPT !.pc = "done", !.result = "returned"]
            /\ UNCHANGED <<handlers, live, radio, radio_handler>>
       ELSE IF radio_handler = 0
            THEN /\ f = 0
                 /\ DiscCallRadioDisconnect([disc EXCEPT !.entry = TRUE])
                 /\ UNCHANGED <<handlers, live>>
            ELSE LET h == radio_handler
                     subs == handlers[h].subscriptions IN
                 /\ f \in 0..Len(subs)
                 /\ IF f > 0
                    THEN /\ live' = live \ FirstHandles(subs, f - 1)
                         /\ DiscFinally([disc EXCEPT !.entry = TRUE, !.h = h,
                               !.log = Repeat("unsubscribe", f - 1) \o <<"unsubscribe!">>],
                               "exception")
                         /\ UNCHANGED handlers
                    ELSE /\ live' = live \ FirstHandles(subs, Len(subs))
                         /\ handlers' = [handlers EXCEPT ![h].subscriptions = <<>>]
                         /\ IF handlers[h].meshcore = 0
                            THEN DiscFinally([disc EXCEPT !.entry = TRUE, !.h = h,
                                   !.log = Repeat("unsubscribe", Len(subs))], "exception")
                            ELSE /\ disc' = [disc EXCEPT !.pc = "stop_auto",
                                       !.entry = TRUE, !.h = h,
                                       !.log = Repeat("unsubscribe", Len(subs))]
                                 /\ UNCHANGED <<radio, radio_handler>>
    /\ UNCHANGED <<radios, nSess, nStarts, open, conn, connection_worker, sub,
                   infoPc, listsPc>>
    /\ UNCHANGED msgVars

\* `await self.meshcore.stop_auto_message_fetching()` completes or raises;
\* on completion disconnect() goes on to `await self.radio.disconnect()`.
DiscStopAuto(ok) ==
    /\ disc.pc = "stop_auto"
    /\ IF ok
       THEN DiscCallRadioDisconnect([disc EXCEPT !.log = Append(@, "stop_auto")])
       ELSE DiscFinally([disc EXCEPT !.log = Append(@, "stop_auto!")], "exception")
    /\ UNCHANGED <<radios, handlers, nSess, nStarts, open, live, conn,
                   connection_worker, sub, infoPc, listsPc>>
    /\ UNCHANGED msgVars

\* `await self.meshcore.disconnect()` in BaseRadio.disconnect completes (then
\* self.meshcore = None) or raises (then the session stays with the radio).
DiscDriver(ok) ==
    /\ disc.pc = "drv_disc"
    /\ IF ok
       THEN /\ open' = open \ {disc.s}
            /\ radios' = [radios EXCEPT ![disc.r].meshcore = 0]
            /\ DiscFinally([disc EXCEPT !.log = Append(@, "disconnect")], "normal")
       ELSE /\ DiscFinally([disc EXCEPT !.log = Append(@, "disconnect!")], "exception")
            /\ UNCHANGED <<open, radios>>
    /\ UNCHANGED <<handlers, nSess, nStarts, live, conn, connection_worker, sub,
                   infoPc, listsPc>>
    /\ UNCHANGED msgVars

\* A disconnect() cancelled in one of its awaits runs its finally clause.
DiscCancelled ==
    /\ disc.pc = "cancelled"
    /\ DiscFinally(disc, "cancelled")
    /\ UNCHANGED <<radios, handlers, nSess, nStarts, open, live, conn,
                   connection_worker, sub, infoPc, listsPc>>
    /\ UNCHANGED msgVars

\* The disconnect worker's state change matches no branch of
\* on_worker_state_changed; the worker is gone.
DiscDone ==
    /\ disc.pc = "done"
    /\ disc' = DiscIdle
    /\ UNCHANGED <<radios, handlers, nSess, nStarts, open, live, radio,
                   radio_handler, conn, connection_worker, sub, infoPc, listsPc>>
    /\ UNCHANGED msgVars

-----------------------------------------------------------------------------
(* RadioConnector.subscribe with RadioHandler.start_listening *)

\* A faulty variant: the last of the subscribe calls is missing
NewHandlesButLast(h, k, n) == {Handle(h, k, Categories[i]) : i \in 1..(n - 1)}

\* The handles of the first n categories, for start number k, on handler h
NewHandles(h, k, n) == {Handle(h, k, Categories[i]) : i \in 1..n}

\* First run of subscribe(): `if self.radio_handler:`, then start_listening()
\* up to its await.  The three meshcore.subscribe calls are synchronous; f > 0
\* is the position of the call that raises, f = 0 means none raises.  An
\* exception is caught by subscribe() and shown as a message.
SubBegin(f) ==
    /\ sub.pc = "pending"
    /\ IF radio_handler = 0
       THEN /\ f = 0
            /\ sub' = [sub EXCEPT !.pc = "done", !.result = "no_handler"]
            /\ UNCHANGED <<handlers, live, nStarts>>
       ELSE LET h == radio_handler
                k == nStarts + 1 IN
            /\ nStarts < MaxStarts
            /\ nStarts' = k
            /\ IF handlers[h].meshcore = 0
               THEN /\ f = 1
                    /\ sub' = [sub EXCEPT !.pc = "done", !.h = h, !.result = "error"]
                    /\ UNCHANGED <<handlers, live>>
               ELSE /\ f \in 0..Len(Categories)
                    /\ IF f > 0
                       THEN /\ live' = live \cup NewHandles(h, k, f - 1)
                            /\ UNCHANGED handlers
                            /\ sub' = [sub EXCEPT !.pc = "done", !.h = h,
                                                  !.result = "error"]
                       ELSE /\ live' = live \cup NewHandles(h, k, Len(Categories))
                            /\ handlers' = [handlers EXCEPT
                                 ![h].subscriptions =
                                     @ \o [i \in 1..Len(Categories) |->
                                             Handle(h, k, Categories[i])]]
                            /\ sub' = [sub EXCEPT !.pc = "auto", !.h = h]
    /\ UNCHANGED <<radios, nSess, open, radio, radio_handler, conn,
                   connection_worker, disc, infoPc, listsPc>>
    /\ UNCHANGED msgVars

\* `await self.meshcore.start_auto_message_fetching()` completes or raises
SubAuto(ok) ==
    /\ sub.pc = "auto"
    /\ IF ok
       THEN sub' = [sub EXCEPT !.pc = "done", !.result = "ok"]
       ELSE sub' = [sub EXCEPT !.pc = "done", !.result = "error"]
    /\ UNCHANGED <<radios, handlers, nSess, nStarts, open, live, radio, radio_handler,
                   conn, connection_worker, disc, infoPc, listsPc>>
    /\ UNCHANGED msgVars

\* on_worker_state_changed for the "subscribe" worker: a notification only
SubDone ==
    /\ sub.pc = "done"
    /\ sub' = SubIdle
    /\ UNCHANGED <<radios, handlers, nSess, nStarts, open, live, radio,
                   radio_handler, conn, connection_worker, disc, infoPc, listsPc>>
    /\ UNCHANGED msgVars

-----------------------------------------------------------------------------
(* MeshChatApp.on_worker_state_changed *)

\* A connection worker finished.  Only the worker that is still
\* self.connection_worker is looked at; on success get_info is started.
ConnectionWorkerChanged(t) ==
    /\ conn[t].pc = "done"
    /\ conn' = [conn EXCEPT ![t] = ConnIdle]
    /\ IF t = connection_worker /\ conn[t].result = "ok"
       THEN /\ infoPc = "idle"
            /\ infoPc' = "pending"
       ELSE UNCHANGED infoPc
    /\ UNCHANGED <<radios, handlers, nSess, nStarts, open, live, radio,
                   radio_handler, connection_worker, disc, sub, listsPc>>
    /\ UNCHANGED msgVars

\* get_radio_info() reads meshcore.self_info and returns; it awaits no I/O.
GetRadioInfo ==
    /\ infoPc = "pending"
    /\ infoPc' = "done"
    /\ UNCHANGED <<radios, handlers, nSess, nStarts, open, live, radio,
                   radio_handler, conn, connection_worker, disc, sub, listsPc>>
    /\ UNCHANGED msgVars

\* "get_info" succeeded: get_lists is started
InfoWorkerChanged ==
    /\ infoPc = "done"
    /\ listsPc = "idle"
    /\ infoPc' = "idle"
    /\ listsPc' = "pending"
    /\ UNCHANGED <<radios, handlers, nSess, nStarts, open, live, radio,
                   radio_handler, conn, connection_worker, disc, sub>>
    /\ UNCHANGED msgVars

\* First run of get_contacts_and_channels(): `meshcore = await
\* self.get_meshcore()`, which suspends on nothing; without a session the
\* empty lists are returned, else get_contacts is awaited on the session.
GetContactsAndChannels ==
    /\ listsPc = "pending"
    /\ LET meshcore == IF radio = 0 THEN 0 ELSE radios[radio].meshcore IN
       IF meshcore = 0
       THEN /\ listsPc' = "done"
            /\ listsResult' = NoLists
            /\ fetch' = FetchIdle
       ELSE /\ listsPc' = "contacts"
            /\ fetch' = [FetchIdle EXCEPT !.s = meshcore]
            /\ UNCHANGED listsResult
    /\ UNCHANGED <<radios, handlers, nSess, nStarts, open, live, radio,
                   radio_handler, conn, connection_worker, disc, sub, infoPc>>
    /\ UNCHANGED <<contacts, channels, inbound, shown, snapshot, listed, device,
                   join, send>>

\* What an awaited driver command does: it returns an event with a payload,
\* an event of type ERROR, or nothing, or it raises
CommandOutcomes == {"ok", "error", "none", "raise"}

\* `await meshcore.commands.get_contacts()` completes with outcome o: the
\* contacts of the payload are kept, any failure leaves the list empty; the
\* first channel probe is awaited.
GetContacts(o) ==
    /\ listsPc = "contacts"
    /\ fetch' = [fetch EXCEPT !.got = o,
                              !.contacts = IF o = "ok" THEN device.contacts ELSE <<>>]
    /\ listsPc' = "probe"
    /\ UNCHANGED <<radios, handlers, nSess, nStarts, open, live, radio,
                   radio_handler, conn, connection_worker, disc, sub, infoPc>>
    /\ UNCHANGED <<listsResult, contacts, channels, inbound, shown, snapshot,
                   listed, device, join, send>>

\* A faulty variant: a probe that raises ends the loop
GetChannelAbortOnRaise(o) ==
    /\ listsPc = "probe"
    /\ LET idx == fetch.idx
           named == o = "ok" /\ device.slots[idx] # <<>>
           chs == IF named
                  THEN Append(fetch.channels, [name |-> device.slots[idx], id |-> idx])
                  ELSE fetch.channels IN
       /\ fetch' = [fetch EXCEPT !.idx = idx + 1,
                                 !.channels = chs,
                                 !.probed = Append(@, idx),
                                 !.okAt = IF o = "ok" THEN @ \cup {idx} ELSE @,
                                 !.raisedAt = IF o = "raise" THEN @ \cup {idx} ELSE @]
       /\ IF idx + 1 = BLE_MAX_CHANNEL_ATTEMPTS \/ o = "raise"
          THEN /\ listsPc' = "done"
               /\ listsResult' = [contacts |-> fetch.contacts, channels |-> chs]
          ELSE UNCHANGED <<listsPc, listsResult>>
    /\ UNCHANGED <<radios, handlers, nSess, nStarts, open, live, radio,
                   radio_handler, conn, connection_worker, disc, sub, infoPc>>
    /\ UNCHANGED <<contacts, channels, inbound, shown, snapshot, listed, device,
                   join, send>>

\* One iteration of `for idx in range(BLE_MAX_CHANNEL_ATTEMPTS)`: the awaited
\* get_channel(idx) completes with outcome o.  The slot is appended when an
\* event other than ERROR came back and its payload has a channel_name; any
\* other outcome, a raised exception included, goes on with the next index.
\* After the last index the lists are returned.
GetChannel(o) ==
    /\ listsPc = "probe"
    /\ LET idx == fetch.idx
           named == o = "ok" /\ device.slots[idx] # <<>>
           chs == IF named
                  THEN Append(fetch.channels, [name |-> device.slots[idx], id |-> idx])
                  ELSE fetch.channels IN
       /\ fetch' = [fetch EXCEPT !.idx = idx + 1,
                                 !.channels = chs,
                                 !.probed = Append(@, idx),
                                 !.okAt = IF o = "ok" THEN @ \cup {idx} ELSE @,
                                 !.raisedAt = IF o = "raise" THEN @ \cup {idx} ELSE @]
       /\ IF idx + 1 = BLE_MAX_CHANNEL_ATTEMPTS
          THEN /\ listsPc' = "done"
               /\ listsResult' = [contacts |-> fetch.contacts, channels |-> chs]
          ELSE UNCHANGED <<listsPc, listsResult>>
    /\ UNCHANGED <<radios, handlers, nSess, nStarts, open, live, radio,
                   radio_handler, conn, connection_worker, disc, sub, infoPc>>
    /\ UNCHANGED <<contacts, channels, inbound, shown, snapshot, listed, device,
                   join, send>>

\* Positions of a channel list that hold the name n
PositionsOf(chs, n) == {i \in DOMAIN chs : chs[i].name = n}

\* `{channel["name"]: channel["id"] for channel in data["channels"]}`: of the
\* channels that share a name, the last one of the list stays
ChannelsDict(chs) ==
    [n \in {chs[i].name : i \in DOMAIN chs} |->
        chs[CHOOSE i \in PositionsOf(chs, n) : \A j \in PositionsOf(chs, n) : j <= i].id]

\* The icon update_contacts puts before the name of a client, a repeater and
\* a room server
TypeIcon(type) ==
    CASE type = 1 -> <<"<client>", " ">>
      [] type = 2 -> <<"<repeater>", " ">>
      [] type = 3 -> <<"<room>", " ">>
      [] OTHER -> <<>>

\* update_contacts(contacts): the list is cleared, then filled with one item
\* for each element that is a dict.  Iterating a list of contact dicts gives
\* the dicts; iterating a dict keyed by public key gives the keys, which are
\* strings and are skipped.
UpdateContacts(shape, entries) ==
    IF shape = "list"
    THEN [i \in DOMAIN entries |-> TypeIcon(entries[i].type) \o entries[i].name]
    ELSE <<>>

\* A faulty variant: the contacts are installed, the channels are left for
\* later
ListsWorkerChangedContactsOnly ==
    /\ listsPc = "done"
    /\ sub.pc = "idle"
    /\ listsPc' = "idle"
    /\ contacts' = listsResult.contacts
    /\ listed' = UpdateContacts("list", contacts')
    /\ UNCHANGED <<listsResult, channels, inbound, shown, snapshot, fetch, device, join, send>>
    /\ sub' = [SubIdle EXCEPT !.pc = "pending"]
    /\ UNCHANGED <<radios, handlers, nSess, nStarts, open, live, radio,
                   radio_handler, conn, connection_worker, disc, infoPc>>


\* "get_lists" succeeded: the lists are installed, the sidebar is filled and
\* subscribe is started
ListsWorkerChanged ==
    /\ listsPc = "done"
    /\ sub.pc = "idle"
    /\ listsPc' = "idle"
    /\ contacts' = listsResult.contacts
    /\ channels' = ChannelsDict(listsResult.channels)
    /\ listed' = UpdateContacts("list", contacts')
    /\ UNCHANGED <<listsResult, inbound, shown, snapshot, fetch, device, join, send>>
    /\ sub' = [SubIdle EXCEPT !.pc = "pending"]
    /\ UNCHANGED <<radios, handlers, nSess, nStarts, open, live, radio,
                   radio_handler, conn, connection_worker, disc, infoPc>>

\* The state after a BLE connect that succeeded at once and after get_info:
\* one radio with session 1, the handler connect_radio() built on it, and the
\* "get_lists" worker started
InitConnected ==
    /\ radios = <<[kind |-> "ble", meshcore |-> 1]>>
    /\ handlers = <<NewHandler(1)>>
    /\ nSess = 1
    /\ nStarts = 0
    /\ open = {1}
    /\ live = {}
    /\ radio = 1
    /\ radio_handler = 1
    /\ conn = [t \in Slots |-> ConnIdle]
    /\ connection_worker = 1
    /\ disc = DiscIdle
    /\ sub = SubIdle
    /\ infoPc = "idle"
    /\ listsPc = "pending"

-----------------------------------------------------------------------------
(* The application: connection requests of the user, the connection        *)
(* workers and the workers that follow a successful connect.  Here a BLE    *)
(* attempt fails by timeout only, the driver's subscribe calls do not raise, *)
(* the radio holds no contact and no channel, and the user issues no         *)
(* disconnect command; SpecApi below explores the failures of the driver.    *)

Next ==
    \/ \E kind \in {"ble", "serial"} : ActionStartConnection(kind)
    \/ \E t \in Slots : ConnBegin(t)
    \/ \E t \in Slots, o \in {"ok", "timeout"} : ConnAttempt(t, o)
    \/ \E t \in Slots : ConnSleep(t)
    \/ \E t \in Slots, ok \in BOOLEAN : ConnSerial(t, ok)
    \/ \E t \in Slots : ConnectionWorkerChanged(t)
    \/ GetRadioInfo
    \/ InfoWorkerChanged
    \/ GetContactsAndChannels
    \/ GetContacts("ok")
    \/ GetChannel("ok")
    \/ ListsWorkerChanged
    \/ SubBegin(0)
    \/ \E ok \in BOOLEAN : SubAuto(ok)
    \/ SubDone

Spec == Init /\ [][Next]_vars

-----------------------------------------------------------------------------
(* The connector used directly: one caller that awaits each call *)

ApiIdle ==
    conn[1].pc = "idle" /\ disc.pc = "idle" /\ sub.pc = "idle" /\ send.pc = "idle"

ApiSetRadio(kind) ==
    /\ ApiIdle
    /\ SetRadio(kind)
    /\ conn' = [conn EXCEPT ![1] = ConnIdle]
    /\ UNCHANGED <<handlers, nSess, nStarts, open, live, radio_handler,
                   connection_worker, disc, sub, infoPc, listsPc>>
    /\ UNCHANGED msgVars

ApiConnectRadio ==
    /\ ApiIdle
    /\ conn' = [conn EXCEPT ![1] = [ConnIdle EXCEPT !.pc = "pending"]]
    /\ UNCHANGED <<radios, handlers, nSess, nStarts, open, live, radio,
                   radio_handler, connection_worker, disc, sub, infoPc, listsPc>>
    /\ UNCHANGED msgVars

\* connect_radio() has returned (or raised) to the caller, who keeps the
\* result
ApiConnectReturn ==
    /\ conn[1].pc = "done"
    /\ conn' = [conn EXCEPT ![1] = [ConnIdle EXCEPT !.result = conn[1].result]]
    /\ UNCHANGED <<radios, handlers, nSess, nStarts, open, live, radio,
                   radio_handler, connection_worker, disc, sub, infoPc, listsPc>>
    /\ UNCHANGED msgVars

ApiDisconnect ==
    /\ ApiIdle
    /\ disc' = [DiscIdle EXCEPT !.pc = "pending"]
    /\ UNCHANGED <<radios, handlers, nSess, nStarts, open, live, radio,
                   radio_handler, conn, connection_worker, sub, infoPc, listsPc>>
    /\ UNCHANGED msgVars

ApiSubscribe ==
    /\ ApiIdle
    /\ sub' = [SubIdle EXCEPT !.pc = "pending"]
    /\ UNCHANGED <<radios, handlers, nSess, nStarts, open, live, radio,
                   radio_handler, conn, connection_worker, disc, infoPc, listsPc>>
    /\ UNCHANGED msgVars

\* Here a BLE attempt fails by timeout only; SpecConnect has every failure.
NextApi ==
    \/ \E kind \in {"ble", "serial"} : ApiSetRadio(kind)
    \/ ApiConnectRadio
    \/ ConnBegin(1)
    \/ \E ok \in BOOLEAN : ConnTeardown(1, ok)
    \/ \E o \in {"ok", "timeout"} : ConnAttempt(1, o)
    \/ ConnSleep(1)
    \/ \E ok \in BOOLEAN : ConnSerial(1, ok)
    \/ ApiConnectReturn
    \/ ApiSubscribe
    \/ \E f \in 0..Len(Categories) : SubBegin(f)
    \/ \E ok \in BOOLEAN : SubAuto(ok)
    \/ SubDone
    \/ ApiDisconnect
    \/ \E f \in 0..(MaxStarts * Len(Categories)) : DiscBegin(f)
    \/ \E ok \in BOOLEAN : DiscStopAuto(ok)
    \/ \E ok \in BOOLEAN : DiscDriver(ok)
    \/ DiscDone

SpecApi == Init /\ [][NextApi]_vars

-----------------------------------------------------------------------------
(* connect() alone: a caller that selects transports and connects, with      *)
(* every outcome of an attempt.  The event loop resumes a coroutine whose    *)
(* await has completed, and every await of connect() completes: create_ble   *)
(* is bounded by wait_for, the sleep by its timer.                           *)

ConnStep ==
    \/ ConnBegin(1)
    \/ \E ok \in BOOLEAN : ConnTeardown(1, ok)
    \/ \E o \in Outcomes : ConnAttempt(1, o)
    \/ ConnSleep(1)
    \/ \E ok \in BOOLEAN : ConnSerial(1, ok)

NextConnect ==
    \/ \E kind \in {"ble", "serial"} : ApiSetRadio(kind)
    \/ ApiConnectRadio
    \/ ConnStep
    \/ ApiConnectReturn

SpecConnect == Init /\ [][NextConnect]_vars /\ WF_vars(ConnStep)

-----------------------------------------------------------------------------
(* RadioHandler.message_callback.  A Python string is the sequence of its    *)
(* characters; a payload field that is absent, None or "" is the empty       *)
(* sequence where the code only tests its truth value.                       *)

\* Python's None where the code tests `is None`
None == <<"<None>">>

\* A payload without "channel_idx": payload.get returns None
NoChannel == -1

\* re.sub(r'@\[(.*?)\]', r'@\1', s), from position i on: each "@[", up to the
\* first "]" after it, loses its brackets; the scan goes on after the
\* match, so the replacement is not scanned again
RECURSIVE SubMentions(_, _)
SubMentions(s, i) ==
    IF i > Len(s)
    THEN <<>>
    ELSE IF /\ s[i] = "@"
            /\ i + 1 <= Len(s)
            /\ s[i + 1] = "["
            /\ \E j \in (i + 2)..Len(s) : s[j] = "]"
         THEN LET j == CHOOSE j \in (i + 2)..Len(s) :
                           /\ s[j] = "]"
                           /\ \A k \in (i + 2)..(j - 1) : s[k] # "]" IN
              <<"@">> \o SubSeq(s, i + 2, j - 1) \o SubMentions(s, j + 1)
         ELSE <<s[i]>> \o SubMentions(s, i + 1)

NormalizeMentions(s) == SubMentions(s, 1)

\* str.strip() where the only whitespace is the blank
RECURSIVE Strip(_)
Strip(s) ==
    IF s = <<>>
    THEN s
    ELSE IF s[1] = " "
         THEN Strip(Tail(s))
         ELSE IF s[Len(s)] = " "
              THEN Strip(SubSeq(s, 1, Len(s) - 1))
              ELSE s

\* str.startswith
StartsWith(s, prefix) ==
    /\ Len(prefix) <= Len(s)
    /\ SubSeq(s, 1, Len(prefix)) = prefix

\* The first of the positions of a list that pass the test of a loop, 0 when
\* there is none: `for contact in self.app.contacts: if ...: ...; break`
First(hits) ==
    IF hits = {} THEN 0 ELSE CHOOSE i \in hits : \A j \in hits : i <= j

\* `contact["public_key"] == full_sender_pubkey`
FindByKey(cs, key) == First({i \in DOMAIN cs : cs[i].public_key = key})

\* A faulty variant: the prefix is compared with the whole key
FindByPrefixWholeKey(cs, prefix) ==
    First({i \in DOMAIN cs : cs[i].public_key = prefix})

\* `contact["public_key"].startswith(sender_pubkey_prefix)`
FindByPrefix(cs, prefix) ==
    First({i \in DOMAIN cs : StartsWith(cs[i].public_key, prefix)})

\* `contact["name"] == extracted_name_from_text`
FindByName(cs, name) == First({i \in DOMAIN cs : cs[i].name = name})

\* re.match(r'^([^:]+):', s): the length of the match, the first colon
\* included, when at least one character comes before it; 0 for no match
MatchNamePrefix(s) ==
    IF \E i \in DOMAIN s : s[i] = ":"
    THEN LET c == CHOOSE i \in DOMAIN s : s[i] = ":" /\ \A j \in 1..(i - 1) : s[j] # ":" IN
         IF c >= 2 THEN c ELSE 0
    ELSE 0

\* Steps "1." of message_callback: the contact with the sender's full key,
\* else the first contact whose key starts with the sender's key prefix
FromContacts(ev, cs, text) ==
    LET byKey == IF ev.sender # <<>> THEN FindByKey(cs, ev.sender) ELSE 0
        byPrefix == IF byKey = 0 /\ ev.pubkey_prefix # <<>>
                    THEN FindByPrefix(cs, ev.pubkey_prefix) ELSE 0 IN
    IF byKey # 0
    THEN [name |-> cs[byKey].name, known |-> TRUE, text |-> text]
    ELSE IF byPrefix # 0
         THEN [name |-> cs[byPrefix].name, known |-> TRUE, text |-> text]
         ELSE [name |-> None, known |-> FALSE, text |-> text]

\* A faulty variant: the text of a direct message is parsed as well
TextStepAppliesToAll(ev, r) == r.name = None

\* `determined_sender_name is None and event.type == EventType.CHANNEL_MSG_RECV`
TextStepApplies(ev, r) == r.name = None /\ ev.type = "CHANNEL_MSG_RECV"

\* Step "2.": a name in front of the first colon of the original text
FromText(ev, cs, r) ==
    LET m == MatchNamePrefix(ev.text) IN
    IF TextStepApplies(ev, r) /\ m # 0
    THEN LET extracted == Strip(SubSeq(ev.text, 1, m - 1))
             rest == Strip(SubSeq(ev.text, m + 1, Len(ev.text))) IN
         [name |-> extracted, known |-> FindByName(cs, extracted) # 0, text |-> rest]
    ELSE r

\* Steps "3." to "5.": sender_name of the payload, the key prefix, "Unknown"
Fallback(ev, r) ==
    IF r.name # None
    THEN r
    ELSE IF ev.sender_name # <<>>
         THEN [r EXCEPT !.name = ev.sender_name]
         ELSE IF ev.pubkey_prefix # <<>>
              THEN [r EXCEPT !.name = ev.pubkey_prefix]
              ELSE [r EXCEPT !.name = <<"U", "n", "k", "n", "o", "w", "n">>]

\* determined_sender_name, is_known_contact and message_text at the end of
\* the resolution
Resolve(ev, cs) ==
    Fallback(ev, FromText(ev, cs, FromContacts(ev, cs, NormalizeMentions(ev.text))))

\* str() of a channel id: its decimal digits, or "None"
RECURSIVE Str(_)
Str(n) ==
    IF n = NoChannel
    THEN <<"N", "o", "n", "e">>
    ELSE IF n < 10
         THEN <<<<"0", "1", "2", "3", "4", "5", "6", "7", "8", "9">>[n + 1]>>
         ELSE Str(n \div 10) \o Str(n % 10)

\* `channels_by_id.get(channel_id, f"Channel {channel_id}")` with
\* channels_by_id the dict turned round
ChannelName(chans, id) ==
    IF \E n \in DOMAIN chans : chans[n] = id
    THEN CHOOSE n \in DOMAIN chans : chans[n] = id
    ELSE <<"C", "h", "a", "n", "n", "e", "l", " ">> \o Str(id)

\* channel_display_part
ChannelDisplayPart(ev, chans) ==
    IF ev.type = "CONTACT_MSG_RECV"
    THEN <<"[", "D", "M", "]">>
    ELSE <<"[">> \o ChannelName(chans, ev.channel_idx) \o <<"]">>

\* local_time; the digits strftime prints are not modelled
LocalTime(ev) ==
    IF ev.sender_timestamp # 0
    THEN <<"<strftime>">>
    ELSE <<"N", "o", " ", "t", "i", "m", "e", "s", "t", "a", "m", "p">>

\* A faulty variant: the line of an unknown channel sender is built like
\* that of a known one
OutputStringUnqualified(ev, r, chans) ==
    LocalTime(ev) \o <<" ">> \o ChannelDisplayPart(ev, chans) \o <<" ">>
        \o r.name \o <<":", " ">> \o r.text

\* output_string
OutputString(ev, r, chans) ==
    LocalTime(ev) \o <<" ">> \o ChannelDisplayPart(ev, chans) \o <<" ">>
        \o (IF ev.type = "CHANNEL_MSG_RECV" /\ ~r.known
            THEN <<"U", "n", "k", "n", "o", "w", "n", " ", "S", "e", "n", "d", "e", "r", ":", " ">>
            ELSE <<>>)
        \o r.name \o <<":", " ">> \o r.text

\* The driver delivers a message event to message_callback, which gives one
\* line to add_message.  `shown` keeps the event and the parts of the line
\* beside the line.
MessageCallback ==
    /\ inbound # NoEvent
    /\ inbound' = NoEvent
    /\ LET ev == inbound
           r == Resolve(ev, contacts) IN
       shown' = [event |-> ev,
                 name |-> r.name,
                 known |-> r.known,
                 text |-> r.text,
                 tag |-> ChannelDisplayPart(ev, channels),
                 line |-> OutputString(ev, r, channels)]
    /\ UNCHANGED <<radios, handlers, nSess, nStarts, open, live, radio,
                   radio_handler, conn, connection_worker, disc, sub, infoPc,
                   listsPc, listsResult, contacts, channels, snapshot, listed,
                   fetch, device, join, send>>

\* The driver delivers a CONTACTS event to contacts_callback, which hands the
\* payload to update_contacts: the sidebar list is rebuilt.  self.contacts,
\* which message_callback reads, is not assigned.
ContactsCallback ==
    /\ snapshot # NoSnapshot
    /\ snapshot' = NoSnapshot
    /\ listed' = UpdateContacts(snapshot.shape, snapshot.entries)
    /\ UNCHANGED <<radios, handlers, nSess, nStarts, open, live, radio,
                   radio_handler, conn, connection_worker, disc, sub, infoPc,
                   listsPc, listsResult, contacts, channels, inbound, shown,
                   fetch, device, join, send>>

-----------------------------------------------------------------------------
(* send_advert, send_message and send_channel_message.  Each reads the       *)
(* session with get_meshcore(), returns at once when there is none, and      *)
(* awaits one command of the driver inside try/except otherwise.             *)

SendOps == {"advert", "message", "channel"}

\* What str(e) of an exception of the driver reads
Details == {<<"t", "i", "m", "e", "o", "u", "t">>, <<>>}

\* The value returned when get_meshcore() gave None
NotConnectedReturn(op) ==
    CASE op = "advert" -> [ok |-> FALSE]
      [] op = "message" ->
            [ok |-> FALSE, error |-> <<"Radio not connected. Cannot send message.">>]
      [] op = "channel" ->
            [ok |-> FALSE, error |-> <<"Radio not connected. Cannot send channel message.">>]

\* The value returned from the except clause, d being str(e)
SendFailedReturn(op, d) ==
    CASE op = "advert" -> [ok |-> FALSE]
      [] op = "message" -> [ok |-> FALSE, error |-> <<"Error sending message: ">> \o d]
      [] op = "channel" ->
            [ok |-> FALSE, error |-> <<"Error sending channel message: ">> \o d]

\* The value returned after the command of the driver returned
SentReturn(op) ==
    CASE op = "advert" -> [ok |-> TRUE]
      [] OTHER -> [ok |-> TRUE, error |-> None]

\* get_meshcore(): the session of self.radio, None without a radio
GetMeshcore == IF radio = 0 THEN 0 ELSE radios[radio].meshcore

\* A send operation is called: without a session it returns, with one the
\* command of the driver is awaited
SendBegin(op) ==
    /\ ApiIdle
    /\ send.n < MaxSends
    /\ LET meshcore == GetMeshcore IN
       send' = IF meshcore = 0
               THEN [SendIdle EXCEPT !.n = send.n + 1, !.op = op,
                                     !.ret = NotConnectedReturn(op)]
               ELSE [SendIdle EXCEPT !.pc = "sending", !.n = send.n + 1, !.op = op,
                                     !.s = meshcore, !.calls = 1]
    /\ UNCHANGED <<radios, handlers, nSess, nStarts, open, live, radio,
                   radio_handler, conn, connection_worker, disc, sub, infoPc, listsPc>>
    /\ UNCHANGED <<listsResult, contacts, channels, inbound, shown, snapshot,
                   listed, fetch, device, join>>

\* The command of the driver returns (o = "ok") or raises with str(e) = d
SendDone(o, d) ==
    /\ send.pc = "sending"
    /\ o = "ok" => d = <<>>
    /\ send' = [send EXCEPT !.pc = "idle",
                            !.raised = (o = "raise"),
                            !.ret = IF o = "raise"
                                    THEN SendFailedReturn(send.op, d)
                                    ELSE SentReturn(send.op)]
    /\ UNCHANGED <<radios, handlers, nSess, nStarts, open, live, radio,
                   radio_handler, conn, connection_worker, disc, sub, infoPc, listsPc>>
    /\ UNCHANGED <<listsResult, contacts, channels, inbound, shown, snapshot,
                   listed, fetch, device, join>>

\* A caller that selects transports, connects and sends
NextSend ==
    \/ \E kind \in {"ble", "serial"} : ApiSetRadio(kind)
    \/ ApiConnectRadio
    \/ ConnBegin(1)
    \/ \E ok \in BOOLEAN : ConnTeardown(1, ok)
    \/ \E o \in {"ok", "timeout"} : ConnAttempt(1, o)
    \/ ConnSleep(1)
    \/ \E ok \in BOOLEAN : ConnSerial(1, ok)
    \/ ApiConnectReturn
    \/ \E op \in SendOps : SendBegin(op)
    \/ \E o \in {"ok", "raise"}, d \in Details : SendDone(o, d)

SpecSend == Init /\ [][NextSend]_vars

-----------------------------------------------------------------------------
(* The "join" command: MeshChatApp.process_join_command with the connector's *)
(* join_public_channel and overwrite_public_channel.  The two connector      *)
(* methods are called by app.py but are not part of the connector source;    *)
(* they are modelled from section 4.4 of the specification.                  *)

\* The link the workflow consults: a radio with a session
ActiveLink == radio # 0 /\ radios[radio].meshcore # 0

\* The slots of a radio that hold no channel
EmptySlots(dev) == {i \in SlotIds : dev.slots[i] = <<>>}

\* The occupied slots of a radio, name and id, by ascending id
RECURSIVE OccupiedFrom(_, _)
OccupiedFrom(dev, i) ==
    IF i \notin SlotIds
    THEN <<>>
    ELSE (IF dev.slots[i] # <<>> THEN <<[name |-> dev.slots[i], id |-> i]>> ELSE <<>>)
             \o OccupiedFrom(dev, i + 1)

OccupiedSlots(dev) == OccupiedFrom(dev, 0)

\* join_public_channel(name) -> (success, result, extra_data), on a radio in
\* state dev: without a link or when the driver fails (o = "fail") it fails;
\* with an empty slot (i is the one taken) the channel is written there; with
\* none it asks for an overwrite and hands out the occupied slots.
JoinPublicChannel(dev, o, name, i) ==
    IF ~ActiveLink \/ o = "fail"
    THEN [success |-> FALSE, result |-> "Failed", extra |-> <<>>, device |-> dev]
    ELSE IF EmptySlots(dev) # {}
         THEN [success |-> TRUE, result |-> "Joined", extra |-> <<>>,
               device |-> [dev EXCEPT !.slots[i] = name]]
         ELSE [success |-> FALSE, result |-> "OVERWRITE_REQUIRED",
               extra |-> OccupiedSlots(dev), device |-> dev]

\* overwrite_public_channel(name, slot) -> (success, message): the channel is
\* written into the slot, whatever it held
OverwritePublicChannel(dev, o, name, slot) ==
    IF ~ActiveLink \/ o = "fail"
    THEN [success |-> FALSE, result |-> "Failed", device |-> dev]
    ELSE [success |-> TRUE, result |-> "Joined",
          device |-> [dev EXCEPT !.slots[slot] = name]]

\* The names a user joins
JoinNames == {<<"#", "x">>}

\* on_input_submitted, "join <name>": the name has to start with "#" and a
\* radio has to be selected; process_join_command is started as a worker.
\* The user issues the command while no fetch and no subscribe is running,
\* so that one "get_lists" worker is followed at a time, and MaxJoins times.
JoinCommand(name) ==
    /\ join.pc = "idle"
    /\ join.n < MaxJoins
    /\ listsPc = "idle"
    /\ sub.pc = "idle"
    /\ name # <<>> /\ name[1] = "#"
    /\ radio # 0
    /\ join' = [JoinIdle EXCEPT !.pc = "pending", !.n = join.n + 1, !.name = name]
    /\ UNCHANGED <<radios, handlers, nSess, nStarts, open, live, radio,
                   radio_handler, conn, connection_worker, disc, sub, infoPc, listsPc>>
    /\ UNCHANGED <<listsResult, contacts, channels, inbound, shown, snapshot,
                   listed, fetch, device, send>>

\* A faulty variant: the lists are refreshed whatever the join returned
JoinSucceededAlways(r) == TRUE

\* `if join_success:`
JoinSucceeded(r) == r.success

\* process_join_command up to its end or to the overwrite dialog: the join is
\* awaited; on success the lists are fetched again, on OVERWRITE_REQUIRED the
\* ChannelOverwriteScreen is shown with the occupied slots, otherwise the
\* failure is notified.
ProcessJoinCommand(o, i) ==
    /\ join.pc = "pending"
    /\ i \in (IF EmptySlots(device) = {} THEN {0} ELSE EmptySlots(device))
    /\ LET r == JoinPublicChannel(device, o, join.name, i) IN
       /\ device' = r.device
       /\ IF JoinSucceeded(r)
          THEN /\ join' = [join EXCEPT !.pc = "idle", !.result = r.result,
                                       !.calls = Append(@, "join")]
               /\ listsPc' = "pending"
          ELSE IF r.result = "OVERWRITE_REQUIRED"
               THEN /\ join' = [join EXCEPT !.pc = "ask", !.result = r.result,
                                            !.occupied = r.extra,
                                            !.calls = Append(@, "join")]
                    /\ UNCHANGED listsPc
               ELSE /\ join' = [join EXCEPT !.pc = "idle", !.result = r.result,
                                            !.calls = Append(@, "join")]
                    /\ UNCHANGED listsPc
    /\ UNCHANGED <<radios, handlers, nSess, nStarts, open, live, radio,
                   radio_handler, conn, connection_worker, disc, sub, infoPc>>
    /\ UNCHANGED <<listsResult, contacts, channels, inbound, shown, snapshot,
                   listed, fetch, send>>

\* The ids a user can select in ChannelOverwriteScreen: those of the items
\* built from the channels it was given
Selectable(occupied) == {occupied[k].id : k \in DOMAIN occupied}

\* A faulty variant: `if overwrite_choice:`, which takes slot 0 for no choice
ChoiceMadeTruthy(c) == c # NoChoice /\ c # 0

\* `if overwrite_choice is not None:`
ChoiceMade(c) == c # NoChoice

\* ChannelOverwriteScreen is dismissed with the selected slot id or, on
\* Cancel and Escape, with None.  With a slot id overwrite_public_channel is
\* awaited and, on success, the lists are fetched again; with None the join
\* is cancelled.
ChannelOverwriteDismissed(c, o) ==
    /\ join.pc = "ask"
    /\ c \in Selectable(join.occupied) \cup {NoChoice}
    /\ IF ChoiceMade(c)
       THEN LET r == OverwritePublicChannel(device, o, join.name, c) IN
            /\ device' = r.device
            /\ join' = [join EXCEPT !.pc = "idle", !.choice = c,
                                    !.result = r.result,
                                    !.calls = Append(@, "overwrite")]
            /\ IF r.success
               THEN listsPc' = "pending"
               ELSE UNCHANGED listsPc
       ELSE /\ o = "ok"
            /\ join' = [join EXCEPT !.pc = "idle", !.choice = c,
                                    !.result = "Cancelled"]
            /\ UNCHANGED <<device, listsPc>>
    /\ UNCHANGED <<radios, handlers, nSess, nStarts, open, live, radio,
                   radio_handler, conn, connection_worker, disc, sub, infoPc>>
    /\ UNCHANGED <<listsResult, contacts, channels, inbound, shown, snapshot,
                   listed, fetch, send>>

\* Inputs: the contacts and channels a radio holds, and message events

Bob == [name |-> <<"B", "o", "b">>, type |-> 1, public_key |-> <<"A", "B", "1", "2">>]

Alice == [name |-> <<"A", "l", "i", "c", "e">>, type |-> 1,
          public_key |-> <<"A", "B", "3", "4">>]

ContactLists == {<<>>, <<Bob>>, <<Bob, Alice>>, <<Alice, Bob>>}

ChanA == <<"#", "a">>

ChanB == <<"#", "b">>

\* The last list has two slots with the same name
ChannelLists ==
    {<<>>,
     <<[name |-> ChanA, id |-> 0]>>,
     <<[name |-> ChanA, id |-> 0], [name |-> ChanB, id |-> 1]>>,
     <<[name |-> ChanA, id |-> 0], [name |-> ChanA, id |-> 1]>>}

FetchedLists == [contacts : ContactLists, channels : ChannelLists]

\* "hi", "Alice: hi", "Carol: hi", "hi @[Bob]", "Alice: hi @[Bob]",
\* "Alice:hi", "", " : hi"
Texts ==
    {<<"h", "i">>,
     <<" ", ":", " ", "h", "i">>,
     <<"A", "l", "i", "c", "e", ":", " ", "h", "i">>,
     <<"C", "a", "r", "o", "l", ":", " ", "h", "i">>,
     <<"h", "i", " ", "@", "[", "B", "o", "b", "]">>,
     <<"A", "l", "i", "c", "e", ":", " ", "h", "i", " ", "@", "[", "B", "o", "b", "]">>,
     <<"A", "l", "i", "c", "e", ":", "h", "i">>,
     <<>>}

\* absent, Bob's key, Alice's key, the key of nobody
SenderKeys == {<<>>, <<"A", "B", "1", "2">>, <<"A", "B", "3", "4">>, <<"C", "D", "5", "6">>}

\* absent, the start of both keys, of Alice's key only, of no key
KeyPrefixes == {<<>>, <<"A", "B">>, <<"A", "B", "3">>, <<"C", "D">>}

SenderNames == {<<>>, <<"D", "a", "n">>}

Events ==
    [type : {"CONTACT_MSG_RECV", "CHANNEL_MSG_RECV"},
     text : Texts,
     sender : SenderKeys,
     pubkey_prefix : KeyPrefixes,
     sender_name : SenderNames,
     channel_idx : {0, 1, NoChannel},
     sender_timestamp : {0, 1}]

\* The get_lists worker has returned what the radio holds, and the driver
\* has a message event to deliver
InitResolve ==
    /\ InitConnector
    /\ listsPc = "done"
    /\ listsResult \in FetchedLists
    /\ contacts = <<>>
    /\ channels = [n \in {} |-> 0]
    /\ inbound \in Events
    /\ shown = NoLine
    /\ snapshot = NoSnapshot
    /\ listed = <<>>
    /\ fetch = FetchIdle
    /\ device = EmptyDevice
    /\ join = JoinIdle
    /\ send = SendIdle

\* A repeater among the contacts
Rita == [name |-> <<"R", "i", "t", "a">>, type |-> 2, public_key |-> <<"E", "F", "7", "8">>]

\* Payloads of a CONTACTS event: the contacts the radio reports, as the dict
\* keyed by public key that get_contacts_and_channels reads, or as a list
Snapshots ==
    [shape : {"dict", "list"}, entries : ContactLists \cup {<<Rita, Bob>>}]

\* Message events that differ in the type, the text and the keys
KeyedEvents ==
    {ev \in Events : /\ ev.sender_name = <<>>
                     /\ ev.channel_idx = 0
                     /\ ev.sender_timestamp = 0}

\* The get_lists worker has returned the contacts of the radio; the driver
\* has a contacts event and a message event to deliver
InitSnapshot ==
    /\ InitConnector
    /\ listsPc = "done"
    /\ listsResult \in {l \in FetchedLists : l.channels = <<>>}
    /\ contacts = <<>>
    /\ channels = [n \in {} |-> 0]
    /\ inbound \in KeyedEvents
    /\ shown = NoLine
    /\ snapshot \in Snapshots
    /\ listed = <<>>
    /\ fetch = FetchIdle
    /\ device = EmptyDevice
    /\ join = JoinIdle
    /\ send = SendIdle

NextSnapshot ==
    \/ ListsWorkerChanged
    \/ ContactsCallback
    \/ MessageCallback

SpecSnapshot == InitSnapshot /\ [][NextSnapshot]_vars

\* The name of the channel a radio holds in slot i: "#c0", "#c1", ...
SlotName(i) == <<"#", "c">> \o Str(i)

\* Radios: one with contacts and channels in the slots 0 and 3, one whose
\* slots are all taken, one with channels of the same name in the slots 1 and 2
Devices ==
    {[contacts |-> <<Bob, Alice>>,
      slots |-> [i \in SlotIds |-> IF i \in {0, 3} THEN SlotName(i) ELSE <<>>]],
     [contacts |-> <<Bob>>,
      slots |-> [i \in SlotIds |-> SlotName(i)]],
     [contacts |-> <<>>,
      slots |-> [i \in SlotIds |-> IF i \in {1, 2} THEN ChanA ELSE <<>>]]}

\* get_contacts_and_channels() on a connected radio, with every outcome of
\* every driver command
InitFetch ==
    /\ InitConnected
    /\ listsResult = NoLists
    /\ contacts = <<>>
    /\ channels = [n \in {} |-> 0]
    /\ inbound = NoEvent
    /\ shown = NoLine
    /\ snapshot = NoSnapshot
    /\ listed = <<>>
    /\ fetch = FetchIdle
    /\ device \in Devices
    /\ join = JoinIdle
    /\ send = SendIdle

NextFetch ==
    \/ GetContactsAndChannels
    \/ \E o \in CommandOutcomes : GetContacts(o)
    \/ \E o \in CommandOutcomes : GetChannel(o)
    \/ ListsWorkerChanged

SpecFetch == InitFetch /\ [][NextFetch]_vars

\* Radios for the join: every slot taken; every slot but two taken
JoinDevices ==
    {[contacts |-> <<Bob>>,
      slots |-> [i \in SlotIds |-> SlotName(i)]],
     [contacts |-> <<Bob, Alice>>,
      slots |-> [i \in SlotIds |-> IF i \in {2, 5} THEN <<>> ELSE SlotName(i)]]}

\* Messages on the slots 2 and 5, from Bob's and from Alice's key
JoinEvents ==
    {ev \in Events : /\ ev.type = "CHANNEL_MSG_RECV"
                     /\ ev.text = <<"h", "i">>
                     /\ ev.sender \in {Bob.public_key, Alice.public_key}
                     /\ ev.pubkey_prefix = <<>>
                     /\ ev.sender_name = <<>>
                     /\ ev.channel_idx \in {0, 1}
                     /\ ev.sender_timestamp = 0}

\* A connected radio whose lists are being fetched, a user who joins public
\* channels, and a message the driver delivers at any moment; the driver's
\* list commands succeed and its subscribe calls do not raise
InitJoin ==
    /\ InitConnected
    /\ listsResult = NoLists
    /\ contacts = <<>>
    /\ channels = [n \in {} |-> 0]
    /\ inbound \in JoinEvents
    /\ shown = NoLine
    /\ snapshot = NoSnapshot
    /\ listed = <<>>
    /\ fetch = FetchIdle
    /\ device \in JoinDevices
    /\ join = JoinIdle
    /\ send = SendIdle

NextJoin ==
    \/ GetContactsAndChannels
    \/ GetContacts("ok")
    \/ GetChannel("ok")
    \/ ListsWorkerChanged
    \/ SubBegin(0)
    \/ SubAuto(TRUE)
    \/ SubDone
    \/ \E name \in JoinNames : JoinCommand(name)
    \/ \E o \in {"ok", "fail"}, i \in SlotIds : ProcessJoinCommand(o, i)
    \/ \E c \in SlotIds \cup {NoChoice}, o \in {"ok", "fail"} : ChannelOverwriteDismissed(c, o)
    \/ MessageCallback

SpecJoin == InitJoin /\ [][NextJoin]_vars

NextResolve ==
    \/ ListsWorkerChanged
    \/ MessageCallback

SpecResolve == InitResolve /\ [][NextResolve]_vars

-----------------------------------------------------------------------------
(* Properties *)

\* The delays 5, 10, 20 of a BLE connect() that fails every attempt
ExpectedDelays == <<5, 10, 20>>

\* C1: a BLE connect() whose every attempt times out makes exactly
\* BLE_MAX_RETRIES + 1 = 4 attempts; the delay slept before attempt n (n >= 1)
\* is BLE_RETRY_DELAY * 2^(n-1), that is 5, 10, 20 seconds; nothing is slept
\* after the last attempt; connect() then returns the timeout failure.
C1_AllTimeoutsBackoff ==
    LET c == conn[1] IN
    (c.failed = {"timeout"} /\ c.last = "timeout") =>
        /\ c.tries <= 4
        /\ Len(c.delays) <= 3
        /\ \A n \in 1..Len(c.delays) :
               /\ c.delays[n] = BLE_RETRY_DELAY * (2 ^ (n - 1))
               /\ c.delays[n] = ExpectedDelays[n]
        /\ c.pc \in {"attempt", "sleep", "done"}
        /\ c.pc \in {"attempt", "sleep"} => c.tries < 4 /\ Len(c.delays) = c.tries
        /\ c.pc = "done" => /\ c.tries = 4
                            /\ c.delays = ExpectedDelays
                            /\ c.result = "fail_timeout"

\* C1 happens: four attempts timed out and connect() has returned
C1_Witness ==
    /\ conn[1].pc = "done"
    /\ conn[1].failed = {"timeout"}
    /\ conn[1].tries = 4
    /\ conn[1].delays = <<5, 10, 20>>
    /\ conn[1].result = "fail_timeout"

\* The safety part of C2, for whatever the attempts produce
C2_Retry ==
    LET c == conn[1] IN
    /\ c.tries <= BLE_MAX_RETRIES + 1
    /\ c.pc \in {"attempt", "sleep"} =>
           /\ c.last # "ok"
           /\ c.tries <= BLE_MAX_RETRIES
           /\ Len(c.delays) = c.tries
    /\ c.pc = "attempt" => c.attempt = c.tries
    /\ c.pc = "sleep" =>
           /\ c.last \in Failures
           /\ c.delays[c.tries] = BLE_RETRY_DELAY * (2 ^ (c.tries - 1))
    /\ c.pc = "done" =>
           /\ c.result = "ok" <=> c.last = "ok"
           /\ c.last \in Failures =>
                  /\ c.tries = BLE_MAX_RETRIES + 1
                  /\ Len(c.delays) = BLE_MAX_RETRIES
                  /\ c.result = "fail_" \o c.last

\* C2: a BLE connect(), whatever mix of timeouts, transport failures and
\* unexpected errors its attempts produce, terminates after at most
\* BLE_MAX_RETRIES + 1 attempts, makes no attempt after a successful one,
\* returns success exactly when its last attempt succeeded, and follows every
\* failed non-final attempt, of any of the three kinds, by the backoff delay
\* and a new attempt.
C2_BoundedRetry ==
    /\ []C2_Retry
    /\ (conn[1].pc = "pending") ~> (conn[1].pc = "done")

\* C2 happens: the three kinds of failure, then success on the last attempt
C2_Witness ==
    /\ conn[1].pc = "done"
    /\ conn[1].failed = Failures
    /\ conn[1].tries = BLE_MAX_RETRIES + 1
    /\ conn[1].result = "ok"

\* C3: disconnect() on a connector that owns a radio with a session ends with
\* self.radio and self.radio_handler None and returns normally, also when
\* stop_listening() or the radio's disconnect raises.
C3_DisconnectAlwaysResets ==
    (disc.pc = "done" /\ disc.entry) =>
        /\ radio = 0
        /\ radio_handler = 0
        /\ disc.result = "returned"

\* C3 happens: disconnect() has ended after an exception inside its try block
C3_Witness ==
    /\ disc.pc = "done"
    /\ disc.entry
    /\ disc.exc
    /\ Len(disc.log) > 0
    /\ disc.log[Len(disc.log)] \in {"unsubscribe!", "stop_auto!", "disconnect!"}

\* Positions of the log at which the driver disconnect was called
DisconnectCalls(log) == {i \in DOMAIN log : log[i] \in {"disconnect", "disconnect!"}}

\* C4: in disconnect(), when a link exists, the handler is stopped (unsubscribe
\* and stop of auto-fetch) before the driver session is disconnected, and the
\* driver disconnect is called whatever happened before it, also when stopping
\* the handler raised.
C4_DriverDisconnectAlwaysCalled ==
    (disc.pc = "done" /\ disc.entry) =>
        /\ DisconnectCalls(disc.log) # {}
        /\ \A i \in DisconnectCalls(disc.log) : i = Len(disc.log)

\* A connect_radio() has returned success, or the failure of the last of the
\* BLE attempts
ConnectedOrFailed ==
    conn[1].pc = "idle"
        /\ conn[1].result \in {"ok"} \cup {"fail_" \o o : o \in Failures}

\* self.radio holds a connected session
Connected == radio # 0 /\ radios[radio].meshcore \in open

\* C5: disconnect() issued after a connect_radio() that succeeded or failed
\* (Connected, or Failed with a radio selected and no session) leaves the
\* connector Idle, with no radio and no handler; and Connected is entered only
\* by a step of connect().
C5_StateMachine ==
    [][/\ (ConnectedOrFailed /\ disc.pc = "pending" /\ disc'.pc = "done")
             => (radio' = 0 /\ radio_handler' = 0)
       /\ (~Connected /\ Connected') => conn[1].pc \in {"attempt", "serial"}]_vars

\* C6: at most one radio object holds an open driver session, in every
\* reachable state.
C6_SingleOpenSession == Cardinality(ConnectedRadios) <= 1

\* C7: connect() on a radio that already has a session disconnects it first,
\* and a failure of that teardown does not leave connect(): the attempts
\* still proceed.
C7_TeardownBestEffort ==
    /\ conn[1].torn # "skipped"
    /\ conn[1].torn = "raised" => conn[1].result # "raised"

\* C8: while a connect_radio() started by action_start_connection is running,
\* a further request neither cancels it nor starts a second one: it runs on,
\* or finishes, and no other connection worker is running after the step.
C8_OneConnectInFlight ==
    [][\A t \in Slots :
          IsRunning(conn[t]) =>
              /\ IsRunning(conn'[t]) \/ conn'[t].pc = "done"
              /\ \A u \in Slots \ {t} : ~IsRunning(conn'[u])]_vars

\* C8 happens: a request arrived, and selected another radio, while a
\* connect_radio() was running on the radio selected before
C8_Witness ==
    \E t \in Slots :
        /\ conn[t].pc \in {"attempt", "sleep", "serial"}
        /\ radio # 0
        /\ radio # conn[t].r

\* C9: however often start_listening() is called without a stop_listening(),
\* the driver holds at most one subscription per category for the handler.
C9_NoDuplicateSubscriptions ==
    \A h \in DOMAIN handlers :
        \A i \in DOMAIN Categories : LiveCount(h, Categories[i]) <= 1

\* C10: the live subscriptions of a handler are none, or the three categories;
\* never some of them.
C10_AllOrNothing ==
    \A h \in DOMAIN handlers :
        LiveCats(h) \in {{}, {Categories[i] : i \in DOMAIN Categories}}

\* Entries of a disconnect log that are calls of stop_auto_message_fetching
StopAutoCalls(log) == {i \in DOMAIN log : log[i] \in {"stop_auto", "stop_auto!"}}

\* Entries of a disconnect log that are calls of unsubscribe
UnsubscribeCalls(log) == {i \in DOMAIN log : log[i] \in {"unsubscribe", "unsubscribe!"}}

\* C11: stop_listening() is best-effort: whatever an unsubscribe does, the
\* stop of auto-fetch is still attempted, and after stop_listening() the
\* handler retains no handle.
C11_StopBestEffort ==
    (disc.pc = "done" /\ disc.h # 0) =>
        /\ StopAutoCalls(disc.log) # {}
        /\ handlers[disc.h].subscriptions = <<>>

\* The handles a step registers with the driver
Registered == live' \ live

C13_StopOnStoppedIsNoOp ==
    (disc.h # 0 /\ UnsubscribeCalls(disc.log) = {}) => StopAutoCalls(disc.log) = {}

C15_SerialSingleAttempt ==
    LET c == conn[1] IN
    (c.r # 0 /\ radios[c.r].kind = "serial") =>
        /\ c.pc \in {"serial", "done"}
        /\ c.delays = <<>>
        /\ c.attempt = 0
        /\ c.pc = "serial" => c.tries = 0
        /\ c.pc = "done" =>
               /\ c.tries = 1
               /\ c.result \in {"ok", "fail_serial"}
               /\ c.result = "ok" <=> c.last = "ok"

\* C15 happens: a serial connect() has returned its failure
C15_Witness ==
    /\ conn[1].pc = "done"
    /\ conn[1].r # 0
    /\ radios[conn[1].r].kind = "serial"
    /\ conn[1].result = "fail_serial"

\* A step in which message_callback handles the inbound event
Delivered == inbound # NoEvent /\ inbound' = NoEvent

\* Contacts whose public key is the event's full key, and contacts whose
\* public key begins with the event's key prefix
FullKeyMatches(ev, cs) ==
    {i \in DOMAIN cs : ev.sender # <<>> /\ cs[i].public_key = ev.sender}

KeyPrefixMatches(ev, cs) ==
    {i \in DOMAIN cs :
        /\ ev.pubkey_prefix # <<>>
        /\ Len(ev.pubkey_prefix) <= Len(cs[i].public_key)
        /\ \A k \in DOMAIN ev.pubkey_prefix : cs[i].public_key[k] = ev.pubkey_prefix[k]}

\* C16: for a direct and for a channel message, when the event's full key is
\* the public key of a contact, the label is that contact's name and the
\* sender is known, whatever else the payload holds; otherwise, when a contact's
\* public key starts with the event's key prefix, the label is the name of
\* such a contact and the sender is known.
C16_ResolveByKey ==
    [][Delivered =>
          LET full == FullKeyMatches(inbound, contacts)
              pre == KeyPrefixMatches(inbound, contacts) IN
          /\ full # {} =>
                 /\ shown'.known
                 /\ \E i \in full : shown'.name = contacts[i].name
          /\ (full = {} /\ pre # {}) =>
                 /\ shown'.known
                 /\ \E i \in pre : shown'.name = contacts[i].name]_vars

\* C16 happens: Alice's full key beside a key prefix that Bob, the first
\* contact, matches as well; Alice is shown
C16_Witness ==
    /\ shown # NoLine
    /\ contacts = <<Bob, Alice>>
    /\ shown.event.sender = Alice.public_key
    /\ shown.event.pubkey_prefix = <<"A", "B">>
    /\ shown.name = Alice.name
    /\ shown.known

\* Lengths n of a leading "<name>: ": n characters without a colon, the first
\* and the last no blank, then a colon and a blank
NamePrefixes(t) ==
    {n \in 1..(Len(t) - 2) :
        /\ t[n + 1] = ":"
        /\ t[n + 2] = " "
        /\ \A k \in 1..n : t[k] # ":"
        /\ t[1] # " "
        /\ t[n] # " "}

C18_Fallbacks ==
    [][Delivered =>
          LET ev == inbound IN
          (/\ FullKeyMatches(ev, contacts) \cup KeyPrefixMatches(ev, contacts) = {}
           /\ ev.type = "CONTACT_MSG_RECV" \/ NamePrefixes(ev.text) = {})
          => /\ shown'.name = (IF ev.sender_name # <<>> THEN ev.sender_name
                               ELSE IF ev.pubkey_prefix # <<>> THEN ev.pubkey_prefix
                               ELSE <<"U", "n", "k", "n", "o", "w", "n">>)
             /\ ~shown'.known
             /\ (\A k \in DOMAIN ev.text : ev.text[k] # "@") => shown'.text = ev.text]_vars

\* Mention markup "@[name]" in a text
HasMentionMarkup(t) ==
    \E i \in DOMAIN t, j \in DOMAIN t :
        /\ t[i] = "@"
        /\ i + 1 < j
        /\ t[i + 1] = "["
        /\ t[j] = "]"

\* C19: the text displayed for a direct or channel message holds no "@[name]"
\* markup, also when a leading "<name>: " was taken off a channel message.
C19_MentionsNormalized ==
    [][Delivered => ~HasMentionMarkup(shown'.text)]_vars

\* The channel collection the application has installed
CurrentChannels == IF listsPc = "idle" THEN listsResult.channels ELSE <<>>

\* C20: a channel message whose channel id is the slot id of a channel of the
\* current collection is tagged with that channel's name, any other is tagged
\* "Channel {id}"; a direct message is tagged as direct.
C20_ChannelTag ==
    [][Delivered =>
          LET ev == inbound
              slots == {i \in DOMAIN CurrentChannels : CurrentChannels[i].id = ev.channel_idx} IN
          IF ev.type = "CONTACT_MSG_RECV"
          THEN shown'.tag = <<"[", "D", "M", "]">>
          ELSE IF slots # {}
               THEN \E i \in slots :
                        shown'.tag = <<"[">> \o CurrentChannels[i].name \o <<"]">>
               ELSE ev.channel_idx \in {0, 1} =>
                        shown'.tag = <<"[", "C", "h", "a", "n", "n", "e", "l", " ",
                                       IF ev.channel_idx = 0 THEN "0" ELSE "1", "]">>]_vars

\* The labels the resolution order allows for an event: the name of a contact
\* with the event's full key; else of a contact whose key starts with the
\* event's key prefix; else, for a channel message, the name of a leading
\* "<name>: " of the text; else the payload's sender name; else the key
\* prefix; else "Unknown".  A field that is missing is passed over.
ExpectedLabels(ev, cs) ==
    LET full == FullKeyMatches(ev, cs)
        pre == KeyPrefixMatches(ev, cs) IN
    IF full # {}
    THEN {cs[i].name : i \in full}
    ELSE IF pre # {}
         THEN {cs[i].name : i \in pre}
         ELSE IF ev.type = "CHANNEL_MSG_RECV" /\ NamePrefixes(ev.text) # {}
              THEN {SubSeq(ev.text, 1, n) : n \in NamePrefixes(ev.text)}
              ELSE IF ev.sender_name # <<>>
                   THEN {ev.sender_name}
                   ELSE IF ev.pubkey_prefix # <<>>
                        THEN {ev.pubkey_prefix}
                        ELSE {<<"U", "n", "k", "n", "o", "w", "n">>}

\* C21: for every direct or channel message event, whichever of text, full
\* key, key prefix, sender name, channel id and timestamp its payload lacks,
\* message_callback gives one line for that event to the display, and the
\* label of the line is the one the resolution order chooses.
C21_MissingFieldsNotDiscarded ==
    [][Delivered =>
          /\ shown' # NoLine
          /\ shown'.event = inbound
          /\ shown'.line # <<>>
          /\ shown'.name \in ExpectedLabels(inbound, contacts)]_vars

\* The part of C21 about the line alone: a line is given to the display for
\* every event, whatever is missing
LineForEveryEvent ==
    [][Delivered => shown' # NoLine /\ shown'.event = inbound /\ shown'.line # <<>>]_vars

\* A step in which contacts_callback handles a contacts event
SnapshotDelivered == snapshot # NoSnapshot /\ snapshot' = NoSnapshot

\* C22: when a contacts snapshot arrives, the contacts the resolver reads
\* are, from then on, the contacts of that snapshot: none of the former
\* contacts stays and none of the new ones is missing.
C22_SnapshotReplacesContacts ==
    [][SnapshotDelivered => contacts' = snapshot.entries]_vars

\* The slots a finished fetch has to return: those whose probe returned a
\* channel event and that hold a named channel
NamedSlots == {i \in fetch.okAt : device.slots[i] # <<>>}

\* C27: get_contacts_and_channels probes the slot indices 0, 1, ... in this
\* order, each once; when it returns it has probed all of them, whatever
\* probe raised, returned an error or nothing, and whatever get_contacts did,
\* and the channels it returns are the named slots that were probed with
\* success, each with its index, in ascending order.
C27_ProbesIsolated ==
    /\ listsPc \in {"contacts", "probe", "done"} /\ fetch.s # 0 =>
           /\ Len(fetch.probed) <= BLE_MAX_CHANNEL_ATTEMPTS
           /\ \A k \in DOMAIN fetch.probed : fetch.probed[k] = k - 1
    /\ listsPc = "done" /\ fetch.s # 0 =>
           LET chs == listsResult.channels IN
           /\ Len(fetch.probed) = BLE_MAX_CHANNEL_ATTEMPTS
           /\ Len(chs) = Cardinality(NamedSlots)
           /\ \A k \in DOMAIN chs :
                  /\ chs[k].id \in NamedSlots
                  /\ chs[k].name = device.slots[chs[k].id]
                  /\ \A j \in 1..(k - 1) : chs[j].id < chs[k].id

\* C27 happens: get_contacts raised, the probe of slot 1 raised and that of
\* slot 2 returned an error; the channels of the slots 0 and 3 are returned
C27_Witness ==
    /\ listsPc = "done"
    /\ fetch.got = "raise"
    /\ 1 \in fetch.raisedAt
    /\ 2 \notin fetch.okAt
    /\ listsResult.channels =
           <<[name |-> SlotName(0), id |-> 0], [name |-> SlotName(3), id |-> 3]>>

-----------------------------------------------------------------------------
\* A step in which the join returned to process_join_command with an answer
\* of the radio (the driver did not fail)
JoinAnswered ==
    /\ join.pc = "pending"
    /\ join'.pc # "pending"
    /\ join'.result # "Failed"

\* C24: a join against a radio with an empty slot writes the channel into one
\* empty slot and returns Joined; against a radio with no empty slot it
\* returns OVERWRITE_REQUIRED with every occupied slot (name and id) and
\* changes neither a slot of the radio nor the application's contacts,
\* channels and workers.
C24_JoinOrOverwriteRequired ==
    [][JoinAnswered =>
         IF EmptySlots(device) # {}
         THEN /\ join'.result = "Joined"
              /\ \E i \in EmptySlots(device) :
                    device' = [device EXCEPT !.slots[i] = join.name]
         ELSE /\ join'.result = "OVERWRITE_REQUIRED"
              /\ join'.pc = "ask"
              /\ Len(join'.occupied) = BLE_MAX_CHANNEL_ATTEMPTS
              /\ \A k \in DOMAIN join'.occupied :
                    /\ join'.occupied[k].id = k - 1
                    /\ join'.occupied[k].name = device.slots[k - 1]
              /\ device' = device
              /\ UNCHANGED <<contacts, channels, listed, listsPc, listsResult,
                             fetch, sub, radio, radio_handler, radios, handlers>>]_vars

\* The overwrite dialog is open on a full radio
C24_Witness ==
    /\ join.pc = "ask"
    /\ join.result = "OVERWRITE_REQUIRED"
    /\ Len(join.occupied) = BLE_MAX_CHANNEL_ATTEMPTS
    /\ EmptySlots(device) = {}

\* A step in which the overwrite dialog was dismissed
OverwriteDecided == join.pc = "ask" /\ join'.pc # "ask"

\* C25: an overwrite with a slot id chosen from the occupied slots writes the
\* channel into exactly that slot, leaves every other slot as it was and
\* returns Joined; the overwrite is called only with a chosen slot id, and a
\* cancelled dialog changes no slot.
C25_OverwriteChosenSlotOnly ==
    [][OverwriteDecided =>
         IF join'.choice # NoChoice
         THEN /\ join'.choice \in Selectable(join.occupied)
              /\ join'.calls = Append(join.calls, "overwrite")
              /\ join'.result # "Failed" =>
                    /\ join'.result = "Joined"
                    /\ device'.slots = [device.slots EXCEPT ![join'.choice] = join.name]
                    /\ device'.contacts = device.contacts
              /\ join'.result = "Failed" => device' = device
         ELSE /\ join'.calls = join.calls
              /\ join'.result = "Cancelled"
              /\ device' = device]_vars

\* Slot 0 was chosen and now holds the joined channel
C25_Witness ==
    /\ join.pc = "idle"
    /\ join.choice = 0
    /\ join.result = "Joined"
    /\ join.calls = <<"join", "overwrite">>
    /\ device.slots[0] = join.name

-----------------------------------------------------------------------------
\* C23: self.contacts and self.channels, which a run of message_callback
\* reads, change only together, in the one step that installs the result of
\* one completed fetch, and no message is resolved within that step: a run of
\* the resolver sees the old pair or the new pair, never contacts of one
\* fetch with channels of another or a collection that is still being filled.
C23_SnapshotReplacedAtomically ==
    [][(contacts' # contacts \/ channels' # channels) =>
          /\ listsPc = "done"
          /\ Len(fetch.probed) = BLE_MAX_CHANNEL_ATTEMPTS
          /\ listsResult = [contacts |-> fetch.contacts, channels |-> fetch.channels]
          /\ contacts' = listsResult.contacts
          /\ channels' = ChannelsDict(listsResult.channels)
          /\ shown' = shown]_vars

\* A message was resolved while the refresh after a join was probing the
\* slots: the old contacts and channels are installed, the joined channel is
\* on the radio and in the list being built, but not yet in self.channels
C23_Witness ==
    /\ join.result = "Joined"
    /\ listsPc = "probe"
    /\ contacts # <<>>
    /\ join.name \notin DOMAIN channels
    /\ \E k \in DOMAIN fetch.channels : fetch.channels[k].name = join.name
    /\ shown # NoLine
    /\ inbound = NoEvent

-----------------------------------------------------------------------------
\* A send operation has returned
SendReturned == send.pc = "idle" /\ send.op # "none"

\* C26: a send operation called without a link makes no call of the driver
\* and returns its not-connected value, and the value it returns when the
\* send of the driver fails is a different one.
C26_NotConnectedDistinct ==
    SendReturned =>
        /\ send.s = 0 => send.calls = 0 /\ send.ret = NotConnectedReturn(send.op)
        /\ send.raised => send.ret # NotConnectedReturn(send.op)

\* The part of C26 that send_message and send_channel_message meet
SendMessageDistinct ==
    SendReturned /\ send.op # "advert" =>
        /\ send.s = 0 => send.calls = 0 /\ send.ret = NotConnectedReturn(send.op)
        /\ send.raised => send.ret # NotConnectedReturn(send.op)

-----------------------------------------------------------------------------
\* The qualifier of a line whose sender is no known contact
UnknownSender ==
    <<"U", "n", "k", "n", "o", "w", "n", " ", "S", "e", "n", "d", "e", "r", ":", " ">>

\* What a line reads after the time and the channel tag
AfterTag(l) ==
    LET head == LocalTime(l.event) \o <<" ">> \o l.tag \o <<" ">> IN
    IF StartsWith(l.line, head)
    THEN SubSeq(l.line, Len(head) + 1, Len(l.line))
    ELSE <<>>

\* C28: the line of a channel message reads "Unknown Sender: " after its
\* channel tag exactly when the sender was not resolved to a known contact;
\* the line of a direct message never does.
C28_QualifierIffUnknown ==
    shown # NoLine =>
        (StartsWith(AfterTag(shown), UnknownSender)
            <=> (shown.event.type = "CHANNEL_MSG_RECV" /\ ~shown.known))

\* A channel message of a sender who is in no contact list, shown with the
\* qualifier, while a contact list is installed
C28_Witness ==
    /\ shown # NoLine
    /\ shown.event.type = "CHANNEL_MSG_RECV"
    /\ ~shown.known
    /\ contacts # <<>>
    /\ StartsWith(AfterTag(shown), UnknownSender \o shown.name)

-----------------------------------------------------------------------------
\* C30: whenever the connector has a handler it also has a radio with a
\* driver session, and the handler is bound to that session.
C30_HandlerBoundToRadioSession ==
    radio_handler # 0 =>
        /\ radio # 0
        /\ radios[radio].meshcore # 0
        /\ handlers[radio_handler].meshcore = radios[radio].meshcore

-----------------------------------------------------------------------------
\* A step in which start_listening() is called
StartListeningCalled == nStarts' # nStarts

\* The workers that follow a connect start one after the other: "get_info"
\* when the current connection worker returned success, "get_lists" when
\* "get_info" is done, "subscribe" in the step that installs the lists of a
\* completed fetch, and start_listening() is called by "subscribe" only.
WorkersInOrderStep ==
    /\ (infoPc' = "pending" /\ infoPc # "pending") =>
          \E t \in Slots : /\ t = connection_worker
                           /\ conn[t].pc = "done"
                           /\ conn[t].result = "ok"
    /\ (listsPc' = "pending" /\ listsPc # "pending") => infoPc = "done"
    /\ (sub'.pc = "pending" /\ sub.pc # "pending") =>
          /\ listsPc = "done"
          /\ contacts' = listsResult.contacts
          /\ channels' = ChannelsDict(listsResult.channels)
    /\ StartListeningCalled => sub.pc = "pending"

\* The order alone, which the workers keep
WorkersInOrder == [][WorkersInOrderStep]_vars

-----------------------------------------------------------------------------
\* A connection request made while the connection worker is running: the
\* request is answered "Connection already in progress"
RejectedRequest ==
    /\ ConnectInProgress
    /\ \E kind \in {"ble", "serial"} : ActionStartConnection(kind)

\* A connect_radio() that returns success in this step
ConnectSucceeds(t) ==
    /\ IsRunning(conn[t])
    /\ conn'[t].pc = "done"
    /\ conn'[t].result = "ok"

\* C31: a connection request rejected because a connect is in flight leaves
\* the connector's radio and handler as they were, so the connect in flight
\* completes on the radio it was started on: the radio the connector holds
\* then is that radio, and the new handler is bound to its session.
C31_RejectedRequestChangesNothing ==
    [][/\ RejectedRequest =>
             /\ radio' = radio
             /\ radios' = radios
             /\ radio_handler' = radio_handler
       /\ \A t \in Slots :
             ConnectSucceeds(t) =>
                /\ radio' = conn[t].r
                /\ handlers'[radio_handler'].meshcore = radios'[conn[t].r].meshcore]_vars

-----------------------------------------------------------------------------
\* C32: the sender label of every displayed line is a non-empty string.  The
\* contacts of every list here have non-empty names.
C32_LabelNonEmpty ==
    shown # NoLine => shown.name # <<>>

\* The labels of direct messages, which never take a name from the text
DirectLabelNonEmpty ==
    shown # NoLine /\ shown.event.type = "CONTACT_MSG_RECV" => shown.name # <<>>

====
